---- MODULE Spec2Model ----
(***************************************************************************)
(* A model of the two programs of the repository:                          *)
(*   solscan_fetch.py        - the paginated, retrying fetch pipeline      *)
(*                             (specification Spec)                        *)
(*   convert_transactions.py - the conversion of raw transactions into     *)
(*                             accounting rows (specification SpecConv)    *)
(* and three narrower views of them:                                       *)
(*   SpecCorpus - one fetch against an indexer that serves a finite corpus *)
(*   SpecMain   - main of solscan_fetch.py over any list of address cells  *)
(*   SpecFormat - format_decimal on its own                                *)
(* A transaction record is modelled by its "signature" field; "" stands    *)
(* for a falsy/absent signature, "None" for Python's None.                 *)
(***************************************************************************)
EXTENDS Integers, Sequences, FiniteSets, TLC

\* ------------------------------------------------------------------ bounds
\* Number of address cells in the input CSV.
MaxCells == 2
\* Largest page size (--limit) explored.
MaxLimit == 2
\* Largest --max cap explored.
MaxCap == 1
\* Longest list of records one batched lookup may return.
MaxResp == 1
\* Total number of API calls the environment answers in one run.
MaxCalls == 4

\* ------------------------------------------------------- program constants
\* max_attempts: int = 3
max_attempts == 3

None == "None"
Addrs == {"A", "B"}
Sigs == {"s1", "s2"}
\* A raw entry of a signatures page: a valid signature, or "" for an entry
\* that is dropped (empty/missing signature, or not a dict).
SigEntries == Sigs \cup {""}
\* A record of a lookup response, by its signature field ("" = no signature).
Records == Sigs \cup {""}

SeqsUpTo(S, n) == UNION {[1..k -> S] : k \in 0..n}
Range(s) == {s[i] : i \in 1..Len(s)}

VARIABLES
    \* ---- solscan_fetch.py
    pc,               \* position of the fetch program
    addresses,        \* main: dedupe_preserve_order(read_addresses(...))
    limit,            \* args.limit
    max_transactions, \* args.max as an option: {} is None, {n} is n
    index,            \* main: position in the loop over addresses (1-based)
    results,          \* main: results dict (address -> payload)
    all_transactions, \* fetch_all_transactions: accumulator
    before,           \* fetch_all_transactions: cursor
    signatures,       \* fetch_all_transactions: the current signature page
    remaining,        \* fetch_transactions_with_retries
    collected,        \* fetch_transactions_with_retries
    attempt,          \* fetch_transactions_with_retries: loop variable
    \* ---- history of the run (observation only, never read by the program)
    calls,            \* API calls answered so far
    pages,            \* signature-page requests made for the current address
    rawlen,           \* length of the last raw signatures page
    lookups,          \* batched lookups made by the current retry call
    warning,          \* signatures reported missing by the last retry call
    listed,           \* signatures listed by the pages of the current address
    returned,         \* signatures of the records the lookups returned
    faithful,         \* the API answered every call as a well-behaved indexer
    capped,           \* the current fetch returned through the cap
    failed,           \* addresses whose fetch raised
    cells,            \* the address cells read_addresses returned
    fetched,          \* the addresses passed to fetch_all_transactions so far
    sent,             \* the cursor the last signature-page request carried
    rsleeps,          \* sleeps made by the current retry call
    psleeps,          \* sleeps between the pages of the current address
    \* ---- the environment
    corpus,           \* SpecCorpus, SpecMain: what the indexer holds, newest
                      \* first
    budget            \* API calls the environment answers in one run

fvars == <<pc, addresses, limit, max_transactions, index, results,
           all_transactions, before, signatures, remaining, collected,
           attempt, calls, pages, rawlen, lookups, warning, listed, returned,
           faithful, capped, failed, cells, fetched, sent, rsleeps, psleeps,
           corpus, budget>>

\* ---- convert_transactions.py
VARIABLES
    cpc,       \* position of the conversion program
    caddr,     \* main/iter_rows: the address whose transaction is converted
    tx,        \* iter_rows: the scalar fields of the transaction
    changes,   \* summarize_changes: asset -> [in, out]
    order,     \* the keys of changes in the order the dict holds them
    rows,      \* iter_rows: the rows of the transaction converted last
    converted, \* main: transactions converted so far
    \* ---- history of the run (observation only)
    nlegs,     \* legs of the current transaction folded so far
    leg,       \* the leg folded last
    prev       \* changes before that leg was folded

cvars == <<cpc, caddr, tx, changes, order, rows, converted, nlegs, leg,
           prev>>

\* ---- format_decimal on its own
VARIABLES
    fpc,       \* "idle", "in" (an amount is given) or "out" (it is formatted)
    famount,   \* the amount passed to format_decimal
    ftext      \* the text format_decimal returned

mvars == <<fpc, famount, ftext>>

vars == <<fvars, cvars, mvars>>

\* ------------------------------------------------------------ pure helpers

RECURSIVE dedupe_from(_, _)
dedupe_from(items, ordered) ==
    IF items = <<>> THEN ordered
    ELSE dedupe_from(Tail(items),
                     IF Head(items) \in Range(ordered) THEN ordered
                     ELSE Append(ordered, Head(items)))

\* A variant that keeps every cell.
dedupe_keep_all(items) == items

dedupe_preserve_order(items) == dedupe_from(items, <<>>)

\* signatures = [sig for sig in signatures if sig]
ValidSignatures(result) == SelectSeq(result, LAMBDA e : e # "")

\* A variant that takes the first valid signature of the page.
NextBeforeFirst(result, lim) ==
    LET sigs == SelectSeq(result, LAMBDA e : e # "")
    IN  IF Len(result) = lim /\ sigs # <<>> THEN sigs[1] ELSE None

\* next_before = signatures[-1] if len(result) == limit and signatures else None
NextBefore(result, lim) ==
    LET sigs == ValidSignatures(result)
    IN  IF Len(result) = lim /\ sigs # <<>> THEN sigs[Len(sigs)] ELSE None

\* returned_signatures = {tx.get("signature") for tx in page if ... tx.get("signature")}
ReturnedSignatures(page) == Range(page) \ {""}

\* A variant whose test is inverted: it keeps what was returned.
StillRemainingInverted(rem, page) ==
    SelectSeq(rem, LAMBDA s : s \in Range(page) \ {""})

\* A variant that filters nothing: every attempt asks for the whole list again.
StillRemainingAll(rem, page) == rem

\* remaining = [sig for sig in remaining if sig not in returned_signatures]
StillRemaining(rem, page) ==
    SelectSeq(rem, LAMBDA s : s \notin ReturnedSignatures(page))

\* A variant that assigns instead of extending.
ExtendReplace(acc, page) == page

\* collected.extend(page)
Extend(acc, page) == acc \o page

\* A variant with a strict comparison.
CapReachedStrict(all, max) == \E n \in max : Len(all) > n

\* max_transactions is not None and len(all_transactions) >= max_transactions
CapReached(all, max) == \E n \in max : Len(all) >= n

\* all_transactions[:max_transactions]
Truncate(all, max) ==
    LET n == CHOOSE n \in max : TRUE
    IN  SubSeq(all, 1, IF n < Len(all) THEN n ELSE Len(all))

\* A variant whose length test is off by one: a full page stops too.
PageExhaustedFull(sigs, lim, cursor) == Len(sigs) <= lim \/ cursor = None

\* A variant that relies on the cursor alone.
PageExhaustedCursorOnly(sigs, lim, cursor) == cursor = None

\* if len(signatures) < limit or before is None: break
PageExhausted(sigs, lim, cursor) == Len(sigs) < lim \/ cursor = None

\* A variant that asks for the newest page every time.
RequestCursorNone(cursor) == None

\* fetch_signatures(address, api_key=api_key, limit=limit, before=before)
RequestCursor(cursor) == cursor

\* A variant that sleeps whenever signatures remain.
ShouldSleepAlways(rem, att) == rem # <<>>

\* if remaining and attempt < max_attempts: time.sleep(delay)
ShouldSleep(rem, att) == rem # <<>> /\ att < max_attempts

\* A variant whose range is one attempt short: range(1, max_attempts).
RetryAgainShort(rem, att) == rem # <<>> /\ att + 1 < max_attempts

\* The next iteration of `for attempt in range(1, max_attempts + 1)` makes a
\* lookup: the range is not exhausted and `if not remaining: break` lets it.
RetryAgain(rem, att) == rem # <<>> /\ att < max_attempts


\* ---------------------------------------------------------- observations
address == addresses[index]

NoRepeat(s) == \A i, j \in 1..Len(s) : s[i] = s[j] => i = j

\* A page of a well-behaved indexer lists no signature twice, in the page or
\* across the pages of one address.
FaithfulPage(sigs) == NoRepeat(sigs) /\ Range(sigs) \cap listed = {}

\* A lookup response of a well-behaved indexer holds at most one record per
\* requested signature and no other record.
FaithfulResponse(page) == NoRepeat(page) /\ Range(page) \subseteq Range(remaining)

\* ------------------------------------------------------------------- Init
\* What the run is given and never changes.
params == <<addresses, limit, max_transactions, cells, corpus, budget>>

\* main before its loop; the locals of the functions it will call are empty.
FetchStart ==
    \* if not addresses: raise SystemExit("No addresses found in input file.")
    /\ pc = IF addresses = <<>> THEN "exit" ELSE "main"
    /\ index = 1
    /\ results = <<>>
    /\ all_transactions = <<>>
    /\ before = None
    /\ signatures = <<>>
    /\ remaining = <<>>
    /\ collected = <<>>
    /\ attempt = 0
    /\ calls = 0
    /\ pages = 0
    /\ rawlen = 0
    /\ lookups = 0
    /\ warning = <<>>
    /\ listed = {}
    /\ returned = {}
    /\ faithful = TRUE
    /\ capped = FALSE
    /\ failed = {}
    /\ fetched = <<>>
    /\ sent = None
    /\ rsleeps = 0
    /\ psleeps = 0

\* The run depends on the cells through addresses alone: of the inputs with
\* one deduplicated list, Spec keeps the list itself. The API answers
\* anything, MaxCalls times.
Init ==
    /\ \E input \in SeqsUpTo(Addrs, MaxCells) :
          addresses = dedupe_preserve_order(input)
    /\ cells = addresses
    /\ limit \in 1..MaxLimit
    /\ max_transactions \in {{}} \cup {{n} : n \in 0..MaxCap}
    /\ corpus = <<>>
    /\ budget = MaxCalls
    /\ FetchStart

\* ---------------------------------------------------------------- actions

\* main: the loop takes the next address and calls fetch_all_transactions,
\* whose locals start fresh.
MainFetch ==
    /\ UNCHANGED <<cvars, mvars>>
    /\ pc = "main"
    /\ index <= Len(addresses)
    /\ pc' = "page"
    /\ fetched' = Append(fetched, address)
    /\ all_transactions' = <<>>
    /\ before' = None
    /\ signatures' = <<>>
    /\ remaining' = <<>>
    /\ collected' = <<>>
    /\ attempt' = 0
    /\ pages' = 0
    /\ rawlen' = 0
    /\ lookups' = 0
    /\ warning' = <<>>
    /\ listed' = {}
    /\ returned' = {}
    /\ faithful' = TRUE
    /\ capped' = FALSE
    /\ sent' = None
    /\ rsleeps' = 0
    /\ psleeps' = 0
    /\ UNCHANGED <<params, index, results, calls, failed>>

\* main: the loop is over; write_results(args.output, results).
MainWrite ==
    /\ UNCHANGED <<cvars, mvars>>
    /\ pc = "main"
    /\ index > Len(addresses)
    /\ pc' = "done"
    /\ UNCHANGED <<params, index, results, all_transactions, before,
                   signatures, remaining, collected, attempt, calls, pages,
                   rawlen, lookups, warning, listed, returned, faithful,
                   capped, failed, fetched, sent, rsleeps, psleeps>>

\* main: results[address] = payload
StoreResult(res, addr, payload) ==
    [a \in DOMAIN res \cup {addr} |-> IF a = addr THEN payload ELSE res[a]]

MainStore ==
    /\ UNCHANGED <<cvars, mvars>>
    /\ pc = "ret"
    /\ results' = StoreResult(results, address, all_transactions)
    /\ index' = index + 1
    /\ pc' = "main"
    /\ UNCHANGED <<params, all_transactions, before, signatures, remaining,
                   collected, attempt, calls, pages, rawlen, lookups, warning,
                   listed, returned, faithful, capped, failed, fetched, sent,
                   rsleeps, psleeps>>

\* A variant that keeps what was fetched before the failure.
OnErrorKeepPartial(res, addr, partial) == StoreResult(res, addr, partial)

\* main: `except HTTPError` / `except Exception`: print and continue.
OnError(res, addr, partial) == res

Raise ==
    /\ results' = OnError(results, address, all_transactions)
    /\ failed' = failed \cup {address}
    /\ index' = index + 1
    /\ pc' = "main"
    /\ calls' = calls + 1

\* fetch_signatures raises: urlopen fails (HTTPError, timeout) or the payload
\* has no list under "result".
FetchSignaturesFail ==
    /\ UNCHANGED <<cvars, mvars>>
    /\ pc = "page"
    /\ calls < budget
    /\ Raise
    /\ UNCHANGED <<params, all_transactions, before, signatures, remaining,
                   collected, attempt, pages, rawlen, lookups, warning, listed,
                   returned, faithful, capped, fetched, sent, rsleeps,
                   psleeps>>

\* fetch_signatures is called with the cursor and returns
\* (signatures, next_before) for the payload `result`;
\* fetch_all_transactions breaks on an empty page, else enters
\* fetch_transactions_with_retries.
FetchSignaturesReturns(result) ==
    LET sigs == ValidSignatures(result) IN
    /\ sent' = RequestCursor(before)
    /\ signatures' = sigs
    /\ before' = NextBefore(result, limit)
    /\ rawlen' = Len(result)
    /\ listed' = listed \cup Range(sigs)
    /\ faithful' = (faithful /\ FaithfulPage(sigs))
    /\ IF sigs = <<>>
       THEN /\ pc' = "ret"
            /\ UNCHANGED <<remaining, collected, attempt>>
       ELSE /\ pc' = "lookup"
            /\ remaining' = sigs
            /\ collected' = <<>>
            /\ attempt' = 1
    /\ calls' = calls + 1
    /\ pages' = pages + 1
    /\ lookups' = 0
    /\ rsleeps' = 0
    /\ warning' = <<>>
    /\ UNCHANGED <<params, index, results, all_transactions, returned, capped,
                   failed, fetched, psleeps>>

\* The API answers the page request with any list of at most `limit` entries.
FetchSignatures ==
    /\ UNCHANGED <<cvars, mvars>>
    /\ pc = "page"
    /\ calls < budget
    /\ \E result \in SeqsUpTo(SigEntries, limit) :
          FetchSignaturesReturns(result)

\* fetch_transactions_for_signatures raises: urlopen fails, the payload says
\* success is False, or the payload is not a list.
LookupFail ==
    /\ UNCHANGED <<cvars, mvars>>
    /\ pc = "lookup"
    /\ calls < budget
    /\ Raise
    /\ UNCHANGED <<params, all_transactions, before, signatures, remaining,
                   collected, attempt, pages, rawlen, lookups, warning, listed,
                   returned, faithful, capped, fetched, sent, rsleeps,
                   psleeps>>

\* fetch_transactions_with_retries leaves its loop, warns about what is still
\* missing and returns; then the rest of the iteration of
\* fetch_all_transactions up to its next sleep or return.
EndRetry(coll, rem) ==
    LET all == Extend(all_transactions, coll) IN
    /\ attempt' = IF attempt < max_attempts THEN attempt + 1 ELSE attempt
    /\ warning' = rem
    /\ capped' = (\E n \in max_transactions : Len(all) >= n)
    /\ IF CapReached(all, max_transactions)
       THEN /\ all_transactions' = Truncate(all, max_transactions)
            /\ pc' = "ret"
       ELSE /\ all_transactions' = all
            /\ pc' = IF PageExhausted(signatures, limit, before)
                     THEN "ret" ELSE "page_sleep"

\* The loop of fetch_transactions_with_retries goes to its next iteration, or
\* ends.
NextAttempt(coll, rem) ==
    IF RetryAgain(rem, attempt)
    THEN /\ pc' = "lookup"
         /\ attempt' = attempt + 1
         /\ UNCHANGED <<warning, all_transactions, capped>>
    ELSE EndRetry(coll, rem)

\* One attempt of fetch_transactions_with_retries, up to its sleep if it
\* makes one.
Lookup ==
    /\ UNCHANGED <<cvars, mvars>>
    /\ pc = "lookup"
    /\ calls < budget
    /\ \E page \in SeqsUpTo(Records, MaxResp) :
        LET coll == Extend(collected, page)
            rem  == StillRemaining(remaining, page)
        IN
        /\ collected' = coll
        /\ remaining' = rem
        /\ returned' = returned \cup (Range(page) \ {""})
        /\ faithful' = (faithful /\ FaithfulResponse(page))
        /\ IF ShouldSleep(rem, attempt)
           THEN /\ pc' = "retry_sleep"
                /\ UNCHANGED <<attempt, warning, all_transactions, capped>>
           ELSE NextAttempt(coll, rem)
    /\ calls' = calls + 1
    /\ lookups' = lookups + 1
    /\ UNCHANGED <<params, index, results, before, signatures, pages, rawlen,
                   listed, failed, fetched, sent, rsleeps, psleeps>>

\* fetch_transactions_with_retries: time.sleep(delay), then the next
\* iteration of the loop.
SleepRetry ==
    /\ UNCHANGED <<cvars, mvars>>
    /\ pc = "retry_sleep"
    /\ rsleeps' = rsleeps + 1
    /\ NextAttempt(collected, remaining)
    /\ UNCHANGED <<params, index, results, before, signatures, remaining,
                   collected, calls, pages, rawlen, lookups, listed, returned,
                   faithful, failed, fetched, sent, psleeps>>

\* fetch_all_transactions: time.sleep(delay), then the next page.
SleepPage ==
    /\ UNCHANGED <<cvars, mvars>>
    /\ pc = "page_sleep"
    /\ pc' = "page"
    /\ psleeps' = psleeps + 1
    /\ UNCHANGED <<params, index, results, all_transactions, before,
                   signatures, remaining, collected, attempt, calls, pages,
                   rawlen, lookups, warning, listed, returned, faithful,
                   capped, failed, fetched, sent, rsleeps>>

FetchNext ==
    \/ MainFetch
    \/ MainWrite
    \/ MainStore
    \/ FetchSignaturesFail
    \/ FetchSignatures
    \/ LookupFail
    \/ Lookup
    \/ SleepRetry
    \/ SleepPage

\* ------------------------------------------- an indexer that serves a corpus
\* Entries the corpus of the address holds.
MaxCorpus == 2

\* The corpus: entries newest first, no valid signature twice; "" is an entry
\* the program drops.
Corpora ==
    {c \in SeqsUpTo(SigEntries, MaxCorpus) : NoRepeat(ValidSignatures(c))}

\* The page the indexer returns: the first `lim` entries of the corpus that
\* lie strictly before (older than) the cursor, all of them from the top when
\* there is no cursor.
Serve(corp, cursor, lim) ==
    LET at   == {i \in 1..Len(corp) : corp[i] = cursor}
        pos  == IF cursor = None \/ at = {} THEN 0 ELSE CHOOSE i \in at : TRUE
        last == IF pos + lim < Len(corp) THEN pos + lim ELSE Len(corp)
    IN  SubSeq(corp, pos + 1, last)

\* The API answers the page request from the corpus.
FetchSignaturesServed ==
    /\ UNCHANGED <<cvars, mvars>>
    /\ pc = "page"
    /\ calls < budget
    /\ FetchSignaturesReturns(Serve(corpus, RequestCursor(before), limit))

\* More calls than one fetch of a corpus of MaxCorpus entries can make.
CorpusBudget == (MaxCorpus + 2) * (max_attempts + 1)

\* One address, whose corpus is any of Corpora.
InitCorpus ==
    /\ cells = <<"A">>
    /\ addresses = dedupe_preserve_order(cells)
    /\ limit \in 1..MaxLimit
    /\ max_transactions \in {{}} \cup {{n} : n \in 0..MaxCap}
    /\ corpus \in Corpora
    /\ budget = CorpusBudget
    /\ FetchStart

CorpusNext ==
    \/ MainFetch
    \/ MainWrite
    \/ MainStore
    \/ FetchSignaturesServed
    \/ Lookup
    \/ SleepRetry
    \/ SleepPage

\* ------------------------------------------------- main over any input file
\* Cells of the input file.
MaxItems == 4
CellAddrs == {"A", "B", "C"}

\* Any list of cells; the indexer holds nothing for any address.
InitMain ==
    /\ cells \in SeqsUpTo(CellAddrs, MaxItems)
    /\ addresses = dedupe_preserve_order(cells)
    /\ limit \in 1..MaxLimit
    /\ max_transactions = {}
    /\ corpus = <<>>
    /\ budget = MaxItems + 1
    /\ FetchStart

MainNext ==
    \/ MainFetch
    \/ MainWrite
    \/ MainStore
    \/ FetchSignaturesServed

\* ================================================= convert_transactions.py

\* Bounds of the conversion model.
\* Legs (native, then token) one transaction holds.
MaxLegs == 2
\* Transactions the run converts.
MaxTxs == 2

\* MIN_NATIVE_TRANSFER_LAMPORTS = 5_000
MIN_NATIVE_TRANSFER_LAMPORTS == 5000

\* The raw "amount" of a native transfer as the JSON holds it: an integer, an
\* absent/null value, or text that is no integer literal (such as "abc").
NativeAmounts ==
    {MIN_NATIVE_TRANSFER_LAMPORTS - 1, MIN_NATIVE_TRANSFER_LAMPORTS,
     2 * MIN_NATIVE_TRANSFER_LAMPORTS, 2000 * MIN_NATIVE_TRANSFER_LAMPORTS}
NativeRaw ==
    [kind : {"int"}, v : NativeAmounts]
        \cup {[kind |-> "absent", v |-> 0], [kind |-> "text", v |-> 0]}

\* The raw "tokenAmount" of a token transfer: a decimal literal (its value in
\* units of 10^-10), text that is no decimal literal (str(None) is one), or
\* the literal "NaN", which Decimal parses.
TokenValues == {-15, 0, 4, 15}
TokenRaw ==
    [kind : {"dec"}, v : TokenValues]
        \cup {[kind |-> "text", v |-> 0], [kind |-> "nan", v |-> 0]}

\* "" is an absent or empty mint.
Mints == {"M1", ""}

NativeTransfers ==
    [kind : {"native"}, amount : NativeRaw,
     fromUserAccount : Addrs, toUserAccount : Addrs]
TokenTransfers ==
    [kind : {"token"}, tokenAmount : TokenRaw, mint : Mints,
     fromUserAccount : Addrs, toUserAccount : Addrs]
NoLeg == [kind |-> "none"]

Fees == {0, MIN_NATIVE_TRANSFER_LAMPORTS}

\* int(transfer.get("amount") or 0) raises ValueError on text.
IntRaises(raw) == raw.kind = "text"
IntOrZero(raw) == IF raw.kind = "int" THEN raw.v ELSE 0

\* normalize_token_amount: Decimal(str(raw_amount)), or Decimal(0) when that
\* raises; Decimal("NaN") does not raise.
normalize_token_amount(raw) ==
    CASE raw.kind = "dec" -> [nan |-> FALSE, v |-> raw.v]
      [] raw.kind = "nan" -> [nan |-> TRUE, v |-> 0]
      [] OTHER            -> [nan |-> FALSE, v |-> 0]

\* `amount <= 0` on a Decimal NaN raises InvalidOperation.
CompareRaises(amount) == amount.nan

\* A variant whose threshold is inclusive.
IsDustInclusive(amount) == amount <= MIN_NATIVE_TRANSFER_LAMPORTS

\* if amount < MIN_NATIVE_TRANSFER_LAMPORTS: continue
IsDust(amount) == amount < MIN_NATIVE_TRANSFER_LAMPORTS

\* if amount <= 0: continue
NotPositive(amount) == amount.v <= 0

\* A variant without the self-transfer test.
IsSelfTransferNever(from, to, addr) == FALSE

\* if from_user == to_user == address: continue
IsSelfTransfer(from, to, addr) == from = to /\ to = addr

\* changes: defaultdict(lambda: {"in": Decimal(0), "out": Decimal(0)})
Entry(ch, asset) ==
    IF asset \in DOMAIN ch THEN ch[asset] ELSE [in |-> 0, out |-> 0]

\* changes[asset]["out"] += amount
AddOut(ch, asset, amount) ==
    [a \in DOMAIN ch \cup {asset} |->
        IF a = asset THEN [Entry(ch, a) EXCEPT !.out = @ + amount] ELSE ch[a]]

\* changes[asset]["in"] += amount
AddIn(ch, asset, amount) ==
    [a \in DOMAIN ch \cup {asset} |->
        IF a = asset THEN [Entry(ch, a) EXCEPT !.in = @ + amount] ELSE ch[a]]

\* A variant that books every leg of the subject in both directions.
BookBoth(ch, asset, amount, from, to, addr) ==
    IF from = addr \/ to = addr
    THEN AddIn(AddOut(ch, asset, amount), asset, amount)
    ELSE ch

\* The two `if` statements that close the body of each loop.
Book(ch, asset, amount, from, to, addr) ==
    LET c1 == IF from = addr THEN AddOut(ch, asset, amount) ELSE ch
    IN  IF to = addr THEN AddIn(c1, asset, amount) ELSE c1

\* summarize_changes: the body of `for transfer in native_transfers`.
NativeFold(ch, addr, transfer) ==
    LET amount == IntOrZero(transfer.amount) IN
    IF IsDust(amount) THEN ch
    ELSE IF IsSelfTransfer(transfer.fromUserAccount, transfer.toUserAccount,
                           addr)
         THEN ch
         ELSE Book(ch, "SOL", amount, transfer.fromUserAccount,
                   transfer.toUserAccount, addr)

\* mint = transfer.get("mint") or "UNKNOWN"
MintOf(transfer) == IF transfer.mint = "" THEN "UNKNOWN" ELSE transfer.mint

\* summarize_changes: the body of `for transfer in token_transfers`.
TokenFold(ch, addr, transfer) ==
    LET amount == normalize_token_amount(transfer.tokenAmount) IN
    IF NotPositive(amount) THEN ch
    ELSE IF IsSelfTransfer(transfer.fromUserAccount, transfer.toUserAccount,
                           addr)
         THEN ch
         ELSE Book(ch, MintOf(transfer), amount.v, transfer.fromUserAccount,
                   transfer.toUserAccount, addr)

\* The keys of the dict after one leg: a key the leg created goes last.
KeysAfter(keys, ch) ==
    LET new == DOMAIN ch \ Range(keys)
    IN  IF new = {} THEN keys ELSE Append(keys, CHOOSE a \in new : TRUE)

\* ------------------------------------------------ decimals and their text
\* A finite Decimal as the formatter sees it: sign, whole units, the first
\* nine fractional digits as one integer (n), and the tenth digit (s).
\* Text is a sequence of one-character strings.

\* Decimal(1_000_000_000)
LamportsPerSol == 1000000000

\* The precision iter_rows passes to format_decimal.
AmountPrecision == 9

\* A non-negative token total (held in units of 10^-10, below one unit).
DecOfTicks(t) == [neg |-> FALSE, w |-> 0, n |-> t \div 10, s |-> t % 10]

\* A variant that divides by 10^6.
lamports_to_sol_micro(lamports) ==
    [neg |-> FALSE, w |-> lamports \div 1000000,
     n |-> (lamports % 1000000) * 1000, s |-> 0]

\* lamports_to_sol: Decimal(lamports) / Decimal(1_000_000_000)
lamports_to_sol(lamports) ==
    [neg |-> FALSE, w |-> lamports \div LamportsPerSol,
     n |-> lamports % LamportsPerSol, s |-> 0]

DigitChars == <<"0", "1", "2", "3", "4", "5", "6", "7", "8", "9">>

\* The decimal digits of a natural number.
RECURSIVE IntText(_)
IntText(k) ==
    IF k < 10 THEN <<DigitChars[k + 1]>>
    ELSE Append(IntText(k \div 10), DigitChars[(k % 10) + 1])

\* The last `width` decimal digits of k, zero-padded.
RECURSIVE FracText(_, _)
FracText(k, width) ==
    IF width = 0 THEN <<>>
    ELSE Append(FracText(k \div 10, width - 1), DigitChars[(k % 10) + 1])

\* f"{amount:.{precision}f}": round half even to `precision` fractional
\* digits (the rounding of the decimal context), sign first.
FixedPoint(amount, precision) ==
    LET up    == amount.s > 5 \/ (amount.s = 5 /\ amount.n % 2 = 1)
        n1    == IF up THEN amount.n + 1 ELSE amount.n
        carry == n1 = 10 ^ precision
        w     == IF carry THEN amount.w + 1 ELSE amount.w
        n     == IF carry THEN 0 ELSE n1
    IN  (IF amount.neg THEN <<"-">> ELSE <<>>)
            \o IntText(w) \o <<".">> \o FracText(n, precision)

\* str.rstrip(ch)
RECURSIVE rstrip(_, _)
rstrip(text, ch) ==
    IF text # <<>> /\ text[Len(text)] = ch
    THEN rstrip(SubSeq(text, 1, Len(text) - 1), ch)
    ELSE text

\* A variant that strips the zeros whether or not a point is there to stop
\* them.
format_decimal_greedy(amount, precision) ==
    LET formatted == rstrip(rstrip(rstrip(FixedPoint(amount, precision),
                                          "0"), "."), "0")
    IN  IF formatted = <<>> THEN <<"0">> ELSE formatted

\* format_decimal
format_decimal(amount, precision) ==
    LET formatted == FixedPoint(amount, precision)
        stripped  == IF "." \in Range(formatted)
                     THEN rstrip(rstrip(formatted, "0"), ".")
                     ELSE formatted
    IN  IF stripped = <<>> THEN <<"0">> ELSE stripped

\* A variant that skips an asset as soon as one of its totals is zero.
SkipRowEither(amount_in, amount_out) == amount_in = 0 \/ amount_out = 0

\* if amount_in == 0 and amount_out == 0: continue
SkipRow(amount_in, amount_out) == amount_in = 0 /\ amount_out = 0

\* iter_rows: the dict appended for one asset.
RowOf(asset, values, fee_sol) ==
    LET amount_in  == IF asset = "SOL" THEN lamports_to_sol(values.in)
                      ELSE DecOfTicks(values.in)
        amount_out == IF asset = "SOL" THEN lamports_to_sol(values.out)
                      ELSE DecOfTicks(values.out)
    IN  [Asset      |-> asset,
         Amount_IN  |-> format_decimal(amount_in, AmountPrecision),
         Amount_OUT |-> format_decimal(amount_out, AmountPrecision),
         Fee        |-> format_decimal(fee_sol, AmountPrecision)]

\* iter_rows, from the return of summarize_changes on: one row per asset of
\* changes in the order of the dict, unless both totals are zero. The Date
\* and Transaction Hash columns are copies of fields of the transaction.
RECURSIVE RowsFrom(_, _, _)
RowsFrom(keys, ch, fee_sol) ==
    IF keys = <<>> THEN <<>>
    ELSE LET values == ch[Head(keys)]
             rest   == RowsFrom(Tail(keys), ch, fee_sol)
         IN  IF SkipRow(values.in, values.out) THEN rest
             ELSE <<RowOf(Head(keys), values, fee_sol)>> \o rest

iter_rows(t, ch, keys) == RowsFrom(keys, ch, lamports_to_sol(t.fee))

\* The fetch program, not running.
FetchIdle ==
    /\ pc = "exit"
    /\ addresses = <<>>
    /\ limit = 1
    /\ max_transactions = {}
    /\ index = 1
    /\ results = <<>>
    /\ all_transactions = <<>>
    /\ before = None
    /\ signatures = <<>>
    /\ remaining = <<>>
    /\ collected = <<>>
    /\ attempt = 0
    /\ calls = 0
    /\ pages = 0
    /\ rawlen = 0
    /\ lookups = 0
    /\ warning = <<>>
    /\ listed = {}
    /\ returned = {}
    /\ faithful = TRUE
    /\ capped = FALSE
    /\ failed = {}
    /\ cells = <<>>
    /\ fetched = <<>>
    /\ sent = None
    /\ rsleeps = 0
    /\ psleeps = 0
    /\ corpus = <<>>
    /\ budget = 0

\* The conversion program before its first transaction.
ConvIdle ==
    /\ cpc = "main"
    /\ caddr = "A"
    /\ tx = [fee |-> 0]
    /\ changes = <<>>
    /\ order = <<>>
    /\ rows = <<>>
    /\ converted = 0
    /\ nlegs = 0
    /\ leg = NoLeg
    /\ prev = <<>>

\* main: the next (address, tx) of the input; iter_rows up to its call of
\* summarize_changes.
ConvBegin ==
    /\ UNCHANGED <<fvars, mvars>>
    /\ cpc = "main"
    /\ converted < MaxTxs
    /\ caddr' \in Addrs
    /\ tx' \in [fee : Fees]
    /\ changes' = <<>>
    /\ order' = <<>>
    /\ rows' = <<>>
    /\ nlegs' = 0
    /\ leg' = NoLeg
    /\ prev' = <<>>
    /\ cpc' = "native"
    /\ UNCHANGED converted

\* main: the input is exhausted; write_csv(rows, args.output).
ConvWrite ==
    /\ UNCHANGED <<fvars, mvars>>
    /\ cpc = "main"
    /\ cpc' = "done"
    /\ UNCHANGED <<caddr, tx, changes, order, rows, converted, nlegs, leg,
                   prev>>

\* summarize_changes: one iteration of the loop over native_transfers. An
\* exception is caught nowhere: it ends the run.
NativeLeg ==
    /\ UNCHANGED <<fvars, mvars>>
    /\ cpc = "native"
    /\ nlegs < MaxLegs
    /\ \E transfer \in NativeTransfers :
        /\ leg' = transfer
        /\ IF IntRaises(transfer.amount)
           THEN cpc' = "crashed" /\ UNCHANGED changes
           ELSE cpc' = "native" /\ changes' = NativeFold(changes, caddr, transfer)
    /\ order' = KeysAfter(order, changes')
    /\ prev' = changes
    /\ nlegs' = nlegs + 1
    /\ UNCHANGED <<caddr, tx, rows, converted>>

\* summarize_changes: the loop over native_transfers ends.
NativeEnd ==
    /\ UNCHANGED <<fvars, mvars>>
    /\ cpc = "native"
    /\ cpc' = "token"
    /\ UNCHANGED <<caddr, tx, changes, order, rows, converted, nlegs, leg,
                   prev>>

\* summarize_changes: one iteration of the loop over token_transfers.
TokenLeg ==
    /\ UNCHANGED <<fvars, mvars>>
    /\ cpc = "token"
    /\ nlegs < MaxLegs
    /\ \E transfer \in TokenTransfers :
        /\ leg' = transfer
        /\ IF CompareRaises(normalize_token_amount(transfer.tokenAmount))
           THEN cpc' = "crashed" /\ UNCHANGED changes
           ELSE cpc' = "token" /\ changes' = TokenFold(changes, caddr, transfer)
    /\ order' = KeysAfter(order, changes')
    /\ prev' = changes
    /\ nlegs' = nlegs + 1
    /\ UNCHANGED <<caddr, tx, rows, converted>>

\* summarize_changes returns; iter_rows builds the rows, main extends its list.
ConvRows ==
    /\ UNCHANGED <<fvars, mvars>>
    /\ cpc = "token"
    /\ rows' = iter_rows(tx, changes, order)
    /\ converted' = converted + 1
    /\ cpc' = "main"
    /\ UNCHANGED <<caddr, tx, changes, order, nlegs, leg, prev>>

ConvNext ==
    \/ ConvBegin
    \/ ConvWrite
    \/ NativeLeg
    \/ NativeEnd
    \/ TokenLeg
    \/ ConvRows

\* --------------------------------------------- format_decimal on its own
\* Largest number of digits of the whole part, less one.
MaxWhole == 2

\* The finite amounts given to format_decimal: both signs, whole parts with
\* and without trailing zeros, fractions that end in zeros, that are all
\* nines, and every tenth digit.
DecInputs ==
    [neg : BOOLEAN,
     w   : 0..MaxWhole \cup {10 ^ MaxWhole},
     n   : {0, 1, 2, 10, 120000000, 500000000, 999999999},
     s   : 0..9] \ {[neg |-> TRUE, w |-> 0, n |-> 0, s |-> 0]}

FormatIdle ==
    /\ fpc = "idle"
    /\ famount = [neg |-> FALSE, w |-> 0, n |-> 0, s |-> 0]
    /\ ftext = <<>>

FormatInit ==
    /\ fpc = "in"
    /\ famount \in DecInputs
    /\ ftext = <<>>

\* format_decimal(amount, 9)
Format ==
    /\ UNCHANGED <<fvars, cvars>>
    /\ fpc = "in"
    /\ ftext' = format_decimal(famount, AmountPrecision)
    /\ fpc' = "out"
    /\ UNCHANGED famount

\* ========================================================= specifications

\* solscan_fetch.py
FInit == Init /\ ConvIdle /\ FormatIdle
Next == FetchNext
Spec == FInit /\ [][Next]_vars

\* solscan_fetch.py, one address, against an indexer that serves a corpus
KInit == InitCorpus /\ ConvIdle /\ FormatIdle
KNext == CorpusNext
SpecCorpus == KInit /\ [][KNext]_vars

\* solscan_fetch.py, main over any list of address cells
AInit == InitMain /\ ConvIdle /\ FormatIdle
ANext == MainNext
SpecMain == AInit /\ [][ANext]_vars

\* convert_transactions.py
CInit == FetchIdle /\ ConvIdle /\ FormatIdle
CNext == ConvNext
SpecConv == CInit /\ [][CNext]_vars

\* format_decimal on every amount of DecInputs
MInit == FetchIdle /\ ConvIdle /\ FormatInit
MNext == Format
SpecFormat == MInit /\ [][MNext]_vars

\* ============================================================== properties

\* fetch_transactions_with_retries has returned to fetch_all_transactions.
RetryEnded == pc \in {"ret", "page_sleep"} /\ signatures # <<>>

\* No signature of the batch appears in any response of the retry call.
NeverAppeared == Range(collected) \cap Range(signatures) = {}

\* The last Len(tail) elements of s are tail.
EndsWith(s, tail) ==
    /\ Len(tail) <= Len(s)
    /\ SubSeq(s, Len(s) - Len(tail) + 1, Len(s)) = tail

\* C1: when the signatures of a batch never appear in any response,
\* fetch_transactions_with_retries makes exactly max_attempts = 3 lookups (no
\* more in any case), then returns normally: it reports exactly the batch as
\* missing and returns the records it collected.
C1_RetryBound ==
    /\ lookups <= max_attempts
    /\ (pc \in {"lookup", "retry_sleep"} /\ NeverAppeared)
          => (remaining = signatures /\ lookups < max_attempts)
    /\ (RetryEnded /\ NeverAppeared)
          => /\ lookups = max_attempts
             /\ warning = signatures
             /\ ~capped => EndsWith(all_transactions, collected)

C1_Witness ==
    /\ RetryEnded
    /\ NeverAppeared
    /\ Len(signatures) = 2
    /\ lookups = max_attempts
    /\ collected # <<>>
    /\ warning = signatures
    /\ ~capped

\* Two records of the list carry the same signature.
HasDuplicateSignature(txs) ==
    \E i, j \in 1..Len(txs) : i < j /\ txs[i] = txs[j] /\ txs[i] # ""

\* C2 (as claimed): whatever the API answers, the list fetch_all_transactions
\* returns holds no two records with the same signature.
C2_Original_Deduplicated ==
    pc = "ret" => ~HasDuplicateSignature(all_transactions)

\* C2 (amended): when every page lists only signatures not listed before and
\* every lookup response holds at most one record per requested signature and
\* nothing else (records may be omitted and are then retried), the returned
\* list holds no two records with the same signature.
C2_DeduplicatedFaithful ==
    (pc = "ret" /\ faithful) => ~HasDuplicateSignature(all_transactions)

\* The first address, after a page whose two records took two lookups and
\* an empty last page.
C2_Witness ==
    /\ pc = "ret"
    /\ faithful
    /\ index = 1
    /\ pages = 2
    /\ calls = 4
    /\ signatures = <<>>
    /\ Len(all_transactions) = 2

\* C3: with no cap and no failing call, every signature a page listed whose
\* record some lookup returned has a record in the returned list.
C3_Complete ==
    (pc = "ret" /\ max_transactions = {})
        => (listed \cap returned) \subseteq Range(all_transactions)

\* A page of two signatures of which the first lookup omitted one.
C3_Witness ==
    /\ pc = "ret"
    /\ max_transactions = {}
    /\ index = 1
    /\ pages = 2
    /\ calls - pages >= 2
    /\ Cardinality(listed \cap returned) = 2
    /\ (listed \cap returned) \subseteq Range(all_transactions)

\* C4 (as claimed): after a signature page of `limit` items the fetch goes on
\* to another page request; it returns only after a shorter (or empty) page.
C4_Original_FullPageContinues == pc = "ret" => Len(signatures) < limit

\* C4 (amended): a raw page of exactly `limit` entries, all valid, yields its
\* last signature as cursor, and once its records are looked up the fetch goes
\* on to another page request unless the cap was reached when the page was
\* appended (or a call raised).
C4_FullPageContinues ==
    /\ (pc \in {"lookup", "retry_sleep", "page_sleep", "ret"}
            /\ Len(signatures) = limit)
          => (rawlen = limit /\ before = signatures[limit])
    /\ (pc = "ret" /\ Len(signatures) = limit) => capped

C4_Witness ==
    /\ pc = "page"
    /\ pages = 1
    /\ limit >= 2
    /\ Len(signatures) = limit
    /\ before = signatures[limit]
    /\ Len(all_transactions) >= 1

\* C5: a signature page of fewer than `limit` items ends pagination, cursor
\* or not: the fetch sleeps for, or issues, a further page request only after
\* a page of exactly `limit` signatures.
C5_ShortPageStops ==
    (pc = "page_sleep" \/ (pc = "page" /\ pages >= 1))
        => Len(signatures) = limit

C5_Witness ==
    /\ pc = "ret"
    /\ signatures # <<>>
    /\ Len(signatures) < limit
    /\ before # None
    /\ ~capped

\* C6: with a cap n, the fetch never returns more than n records; the cap is
\* checked when a page has been appended, and once the count has reached n
\* the list is cut to exactly n and returned at once: no page request and no
\* page sleep happens with n or more records accumulated.
C6_Cap ==
    \A n \in max_transactions :
        /\ pc = "ret" => Len(all_transactions) <= n
        /\ capped => (pc \in {"ret", "main", "done"}
                        /\ Len(all_transactions) = n)
        /\ (pc = "page_sleep" \/ (pc = "page" /\ pages >= 1))
              => Len(all_transactions) < n
        /\ (pc \in {"lookup", "retry_sleep"} /\ pages >= 2)
              => Len(all_transactions) < n

C6_Witness ==
    /\ pc = "ret"
    /\ capped
    /\ all_transactions # <<>>
    /\ Len(collected) > Len(all_transactions)

\* The addresses main's loop is through with.
Processed == {addresses[i] : i \in 1..(index - 1)}

\* C7: a failure while fetching one address does not abort the loop: the
\* failed address is left out of the results, partial records included, and
\* every address fetched without error is in the results with the list its
\* fetch returned.
C7_ErrorIsolation ==
    /\ failed \subseteq Processed
    /\ DOMAIN results = Processed \ failed
    /\ pc = "done" => index = Len(addresses) + 1
    /\ (pc = "main" /\ index > 1 /\ addresses[index - 1] \notin failed)
          => results[addresses[index - 1]] = all_transactions

C7_Witness ==
    /\ pc = "done"
    /\ Len(addresses) = 2
    /\ failed = {addresses[1]}
    /\ results[addresses[2]] # <<>>

\* The amount of the leg is no numeric literal.
Malformed(l) ==
    \/ l.kind = "native" /\ l.amount.kind = "text"
    \/ l.kind = "token" /\ l.tokenAmount.kind \in {"text", "nan"}

\* C8: a malformed amount in one leg, native or token, counts as zero and is
\* dropped: folding the leg raises nothing and leaves the totals as they were.
C8_ParseFallback ==
    Malformed(leg) => (cpc # "crashed" /\ changes = prev)

\* The leg goes from the subject address to itself.
SelfLeg(l) ==
    /\ l.kind \in {"native", "token"}
    /\ l.fromUserAccount = caddr
    /\ l.toUserAccount = caddr

\* C9: a leg whose from and to are both the subject address changes no total
\* of any asset, whatever its amount.
C9_SelfTransferIgnored == SelfLeg(leg) => changes = prev

C9_Witness ==
    /\ cpc = "native"
    /\ SelfLeg(leg)
    /\ leg.kind = "native"
    /\ leg.amount = [kind |-> "int", v |-> 2 * MIN_NATIVE_TRANSFER_LAMPORTS]
    /\ changes # <<>>

\* The lamports of a native leg whose amount int() accepts.
Lamports(l) == IF l.amount.kind = "int" THEN l.amount.v ELSE 0

\* C10: a native leg below 5,000 lamports changes no total; a native leg of
\* 5,000 lamports or more that is no self-transfer adds its whole amount to
\* SOL out when it leaves the subject address and to SOL in when it reaches it.
C10_DustThreshold ==
    (leg.kind = "native" /\ cpc # "crashed") =>
        /\ Lamports(leg) < MIN_NATIVE_TRANSFER_LAMPORTS => changes = prev
        /\ (Lamports(leg) >= MIN_NATIVE_TRANSFER_LAMPORTS /\ ~SelfLeg(leg)) =>
              /\ Entry(changes, "SOL").out = Entry(prev, "SOL").out +
                    (IF leg.fromUserAccount = caddr THEN Lamports(leg) ELSE 0)
              /\ Entry(changes, "SOL").in = Entry(prev, "SOL").in +
                    (IF leg.toUserAccount = caddr THEN Lamports(leg) ELSE 0)

C10_Witness ==
    /\ cpc = "native"
    /\ leg.kind = "native"
    /\ Lamports(leg) = MIN_NATIVE_TRANSFER_LAMPORTS
    /\ leg.fromUserAccount = caddr
    /\ leg.toUserAccount # caddr
    /\ prev # <<>>
    /\ Entry(changes, "SOL").out =
          Entry(prev, "SOL").out + MIN_NATIVE_TRANSFER_LAMPORTS

\* The assets a transaction of the model can move.
Assets == {"SOL", "M1", "UNKNOWN"}

\* The rows iter_rows produced for asset a.
RowCount(a) == Cardinality({i \in 1..Len(rows) : rows[i].Asset = a})

\* iter_rows has returned for the transaction converted last.
RowsBuilt == cpc \in {"main", "done"} /\ converted > 0

\* C11: iter_rows produces exactly one row for an asset when the asset's
\* aggregated in or out total is strictly positive, and no row for any other
\* asset: an asset whose legs were all filtered out (a token amount of 0) has
\* none.
C11_RowIffMovement ==
    RowsBuilt =>
        /\ \A i \in 1..Len(rows) : rows[i].Asset \in Assets
        /\ \A a \in Assets :
              RowCount(a) = IF Entry(changes, a).in > 0
                                \/ Entry(changes, a).out > 0
                            THEN 1 ELSE 0

C11_Witness ==
    /\ RowsBuilt
    /\ nlegs = 2
    /\ leg.kind = "token"
    /\ leg.tokenAmount = [kind |-> "dec", v |-> 0]
    /\ leg.mint = "M1"
    /\ leg.fromUserAccount = caddr
    /\ leg.toUserAccount # caddr
    /\ Entry(changes, "SOL").in > 0
    /\ Entry(changes, "SOL").out = 0
    /\ RowCount("SOL") = 1
    /\ RowCount("M1") = 0
    /\ Len(rows) = 1

\* C12: no row iter_rows produces has both its Amount_IN and its Amount_OUT
\* equal to the text "0".
C12_NoZeroRow ==
    RowsBuilt =>
        \A i \in 1..Len(rows) :
            ~(rows[i].Amount_IN = <<"0">> /\ rows[i].Amount_OUT = <<"0">>)

\* --------------------------------------------------- reading a text back
DigitValue(ch) == CHOOSE d \in 0..9 : DigitChars[d + 1] = ch

\* The natural number a sequence of digits writes ("" writes 0).
RECURSIVE NatOfText(_)
NatOfText(digits) ==
    IF digits = <<>> THEN 0
    ELSE NatOfText(SubSeq(digits, 1, Len(digits) - 1)) * 10
            + DigitValue(digits[Len(digits)])

\* Decimal(text) for a text of at most nine fractional digits.
ParseDec(text) ==
    LET neg   == text # <<>> /\ text[1] = "-"
        body  == IF neg THEN Tail(text) ELSE text
        dots  == {i \in 1..Len(body) : body[i] = "."}
        p     == IF dots = {} THEN Len(body) + 1 ELSE CHOOSE i \in dots : TRUE
        whole == SubSeq(body, 1, p - 1)
        frac  == SubSeq(body, p + 1, Len(body))
    IN  [neg |-> neg, w |-> NatOfText(whole),
         n |-> NatOfText(frac) * 10 ^ (AmountPrecision - Len(frac)), s |-> 0]

\* The decimal text reads back as exactly this many lamports.
ReadsAsLamports(text, lamports) ==
    LET d == ParseDec(text)
    IN  /\ ~d.neg
        /\ d.w = lamports \div 1000000000
        /\ d.n = lamports % 1000000000

\* The transaction converted last is one native transfer, of at least the
\* threshold, from the subject address to another address.
SingleNativeOut ==
    /\ RowsBuilt
    /\ nlegs = 1
    /\ leg.kind = "native"
    /\ leg.amount.kind = "int"
    /\ leg.amount.v >= MIN_NATIVE_TRANSFER_LAMPORTS
    /\ leg.fromUserAccount = caddr
    /\ leg.toUserAccount # caddr

\* C13: a transaction whose only leg is a native transfer of A >= 5,000
\* lamports from the subject address to another one, with fee F, yields
\* exactly one row: Asset "SOL", Amount_IN "0", Amount_OUT the text of
\* A / 10^9 and Fee the text of F / 10^9 ("0.01" and "0.000005" for
\* A = 10,000,000 and F = 5,000); all the rows of one transaction carry the
\* same fee text.
C13_SingleNativeRow ==
    /\ SingleNativeOut =>
          /\ Len(rows) = 1
          /\ rows[1].Asset = "SOL"
          /\ rows[1].Amount_IN = <<"0">>
          /\ ReadsAsLamports(rows[1].Amount_OUT, leg.amount.v)
          /\ ReadsAsLamports(rows[1].Fee, tx.fee)
    /\ (SingleNativeOut /\ leg.amount.v = 10000000 /\ tx.fee = 5000) =>
          /\ rows[1].Amount_OUT = <<"0", ".", "0", "1">>
          /\ rows[1].Fee = <<"0", ".", "0", "0", "0", "0", "0", "5">>
    /\ RowsBuilt =>
          \A i, j \in 1..Len(rows) : rows[i].Fee = rows[j].Fee

C13_Witness ==
    /\ SingleNativeOut
    /\ leg.amount.v = 10000000
    /\ tx.fee = 5000
    /\ rows = <<[Asset      |-> "SOL",
                 Amount_IN  |-> <<"0">>,
                 Amount_OUT |-> <<"0", ".", "0", "1">>,
                 Fee        |-> <<"0", ".", "0", "0", "0", "0", "0", "5">>]>>

\* The amount is zero.
IsZeroDec(d) == d.w = 0 /\ d.n = 0 /\ d.s = 0

\* d is a whole number of 10^-9 steps and equals amount.
SameValue(d, amount) ==
    /\ d.w = amount.w /\ d.n = amount.n /\ d.s = amount.s
    /\ d.neg = amount.neg \/ IsZeroDec(amount)

\* amount cut down to a whole number of 10^-9 steps, towards zero.
NanoFloor(amount) == [amount EXCEPT !.s = 0]

\* One 10^-9 step further from zero.
NanoStep(amount) ==
    IF amount.n + 1 = 10 ^ AmountPrecision
    THEN [amount EXCEPT !.w = @ + 1, !.n = 0]
    ELSE [amount EXCEPT !.n = @ + 1]

\* d lies within 10^-9 of amount: it is one of the two whole numbers of
\* 10^-9 steps that enclose it.
WithinOneNano(d, amount) ==
    \/ SameValue(d, NanoFloor(amount))
    \/ SameValue(d, NanoStep(NanoFloor(amount)))

FirstIndex(s, x) ==
    CHOOSE i \in 1..Len(s) : s[i] = x /\ \A j \in 1..(i - 1) : s[j] # x

\* How many times x occurs in s.
Occurrences(s, x) == Cardinality({i \in 1..Len(s) : s[i] = x})

\* C15: dedupe_preserve_order returns a list without repeats that holds
\* exactly the addresses of its input, in the order of their first
\* occurrence; applying it again changes nothing; so main passes each distinct
\* address of the input to fetch_all_transactions exactly once.
C15_DedupePreservesOrder ==
    /\ NoRepeat(addresses)
    /\ Range(addresses) = Range(cells)
    /\ \A i, j \in 1..Len(addresses) :
          i < j => FirstIndex(cells, addresses[i])
                      < FirstIndex(cells, addresses[j])
    /\ dedupe_preserve_order(addresses) = addresses
    /\ \A a \in CellAddrs : Occurrences(fetched, a) <= 1
    /\ Range(fetched) \subseteq Range(cells)
    /\ pc = "done" => \A a \in Range(cells) : Occurrences(fetched, a) = 1

C15_Witness ==
    /\ pc = "done"
    /\ cells = <<"B", "A", "B", "C">>
    /\ addresses = <<"B", "A", "C">>
    /\ fetched = <<"B", "A", "C">>

\* C16: against an indexer that serves a finite corpus strictly before the
\* cursor, fetch_all_transactions terminates: it makes at most one
\* signature-page request per `limit` valid signatures of the corpus plus one
\* (so no more than the corpus size plus one), the run ends before the
\* environment stops answering, and a raw page of `limit` entries none of
\* which is valid yields no cursor and ends the fetch.
C16_Terminates ==
    /\ pages <= (Len(ValidSignatures(corpus)) \div limit) + 1
    /\ pages <= Len(corpus) + 1
    /\ calls < budget
    /\ (pages >= 1 /\ rawlen = limit /\ signatures = <<>>) =>
          (before = None /\ pc \in {"ret", "main", "done"})

C16_Witness ==
    /\ pc = "done"
    /\ limit = 1
    /\ corpus = <<"s1", "s2">>
    /\ pages = 3
    /\ Len(results["A"]) >= 2

\* fetch_signatures has returned for the current page and no later page has
\* been requested.
PageFetched == pc \in {"lookup", "retry_sleep", "page_sleep", "ret"}

\* C17: the cursor fetch_signatures returns is non-null exactly when the raw
\* page has `limit` entries and at least one valid signature is left after
\* filtering, and it is then the last valid signature of the page; the first
\* page request of an address carries no cursor and every later one carries
\* exactly the cursor the previous page returned.
C17_Cursor ==
    /\ [](PageFetched =>
            /\ (before # None) <=> (rawlen = limit /\ signatures # <<>>)
            /\ before # None => before = signatures[Len(signatures)]
            /\ pages = 1 => sent = None)
    /\ [][pages' = pages + 1 => sent' = before]_vars

C17_Witness ==
    /\ PageFetched
    /\ pages = 2
    /\ limit = 2
    /\ sent = "s2"
    /\ signatures = <<"s2", "s1">>
    /\ before = "s1"

\* a can be obtained from b by deleting elements.
RECURSIVE IsSubseq(_, _)
IsSubseq(a, b) ==
    IF a = <<>> THEN TRUE
    ELSE IF b = <<>> THEN FALSE
    ELSE IF Head(a) = Head(b) THEN IsSubseq(Tail(a), Tail(b))
    ELSE IsSubseq(a, Tail(b))

\* fetch_transactions_with_retries is in its loop: about to look up
\* `remaining`, or asleep before doing so.
InRetry == pc \in {"lookup", "retry_sleep"}

\* C18: every attempt of fetch_transactions_with_retries asks only for the
\* signatures still missing: the list it asks for is never empty, is a
\* subsequence of the signatures it was given and holds no signature whose
\* record an earlier attempt returned; an attempt never makes the list grow;
\* and a call whose attempts returned everything ends with no warning.
C18_RetryRequestsMissing ==
    /\ [](InRetry =>
            /\ remaining # <<>>
            /\ IsSubseq(remaining, signatures)
            /\ Range(remaining) \cap ReturnedSignatures(collected) = {})
    /\ []((RetryEnded /\ remaining = <<>>) => warning = <<>>)
    /\ [][(pc = "lookup" /\ lookups' = lookups + 1) =>
            /\ IsSubseq(remaining', remaining)
            /\ remaining' = <<>> => ~InRetry']_vars

C18_Witness ==
    /\ pc = "lookup"
    /\ lookups = 1
    /\ signatures = <<"s1", "s2">>
    /\ collected = <<"s1">>
    /\ remaining = <<"s2">>

\* C19: the delay is slept only between two requests. In a retry call one
\* sleep precedes every lookup after the first, a sleep follows an attempt
\* exactly when signatures remain and attempts are left, and none follows
\* the last attempt; in fetch_all_transactions one sleep precedes every page
\* request after the first, and none follows the last page.
C19_SleepsBetweenRequests ==
    /\ pc = "lookup" => rsleeps = lookups
    /\ pc = "retry_sleep" =>
          /\ rsleeps + 1 = lookups
          /\ remaining # <<>>
          /\ lookups < max_attempts
    /\ RetryEnded =>
          /\ rsleeps + 1 = lookups
          /\ remaining = <<>> \/ lookups = max_attempts
    /\ pc = "page" => psleeps = pages
    /\ PageFetched => psleeps + 1 = pages
    /\ pc = "page_sleep" =>
          /\ ~CapReached(all_transactions, max_transactions)
          /\ ~PageExhausted(signatures, limit, before)

C19_Witness ==
    /\ pc = "page"
    /\ pages = 1
    /\ psleeps = 1
    /\ lookups = max_attempts
    /\ rsleeps = max_attempts - 1
    /\ remaining # <<>>

\* The amount a leg carries once parsed (0 for what parses to nothing).
LegAmount(l) ==
    IF l.kind = "native" THEN Lamports(l)
    ELSE IF l.tokenAmount.kind = "dec" THEN l.tokenAmount.v ELSE 0

\* The asset a leg moves.
LegAsset(l) ==
    IF l.kind = "native" THEN "SOL"
    ELSE IF l.mint = "" THEN "UNKNOWN" ELSE l.mint

\* What folding the last leg added to one total.
Delta(a, dir) == Entry(changes, a)[dir] - Entry(prev, a)[dir]

\* The totals the last leg changed.
Touched == {t \in Assets \X {"in", "out"} : Delta(t[1], t[2]) # 0}

\* C20: all along the fold of summarize_changes the in and out totals of
\* every asset are non-negative and never decrease, and a leg adds its amount
\* to at most one total: the out total of its asset when it leaves the
\* subject address, the in total when it reaches it, and nothing when the
\* subject is neither or both of its ends.
C20_FoldMonotone ==
    /\ DOMAIN changes \subseteq Assets
    /\ \A a \in Assets :
          Entry(changes, a).in >= 0 /\ Entry(changes, a).out >= 0
    /\ leg.kind # "none" =>
          /\ \A a \in Assets :
                Delta(a, "in") >= 0 /\ Delta(a, "out") >= 0
          /\ Cardinality(Touched) <= 1
          /\ \A t \in Touched :
                /\ t[1] = LegAsset(leg)
                /\ Delta(t[1], t[2]) = LegAmount(leg)
                /\ t[2] = "out" =>
                      (leg.fromUserAccount = caddr /\ leg.toUserAccount # caddr)
                /\ t[2] = "in" =>
                      (leg.toUserAccount = caddr /\ leg.fromUserAccount # caddr)
          /\ ((leg.fromUserAccount = caddr) <=> (leg.toUserAccount = caddr))
                => changes = prev

C20_Witness ==
    /\ cpc = "token"
    /\ leg.kind = "token"
    /\ leg.tokenAmount = [kind |-> "dec", v |-> 15]
    /\ leg.mint = ""
    /\ leg.toUserAccount = caddr
    /\ leg.fromUserAccount # caddr
    /\ Entry(prev, "SOL").out > 0
    /\ Touched = {<<"UNKNOWN", "in">>}
    /\ Delta("UNKNOWN", "in") = 15

====
